---- MODULE Spec2Model ----
(***************************************************************************)
(* A model of streamlit_app.py (TrendSift+): the four cached adapters, the *)
(* script run of main() under Streamlit's rerun-per-interaction execution  *)
(* model, and the "Process Selected Results" block.                        *)
(*                                                                         *)
(* Python values are modelled as records with a kind field k, so that a    *)
(* None, a dict, a list and a scalar can be told apart the way the code    *)
(* tells them apart (truthiness, isinstance, key lookup).                  *)
(***************************************************************************)
EXTENDS Integers, Sequences, FiniteSets, TLC

VARIABLES
    logged_in,              \* st.session_state["logged_in"]
    search_query,           \* sidebar text_input
    selected_search_types,  \* sidebar multiselect, in selection order
    selected_timeframe,     \* sidebar selectbox
    checked,                \* checkbox keys whose widget state is True
    now,                    \* wall clock, whole seconds
    reads,                  \* readings of datetime.now() so far: no two readings are equal
    cache,                  \* st.cache_data stores, one per decorated function
    pc,                     \* position of the running script: "idle", "loop", "http"
    run,                    \* the widget return values and locals of the current script run
    pending,                \* the HTTP request the script is blocked on
    display,                \* what the last/current script run has rendered, in order
    hist,                   \* history of the session, read by the properties only
    tin, tout,              \* google_trends_search parsing alone: input timeline, output
    bin, bout,              \* main's search block alone: inputs, outcome
    plan, sent, fres        \* exa_get_contents alone: remote script, requests sent, outcome

vars == <<logged_in, search_query, selected_search_types, selected_timeframe, checked,
          now, reads, cache, pc, run, pending, display, hist,
          tin, tout, bin, bout, plan, sent, fres>>

(***************************************************************************)
(* Python values                                                           *)
(***************************************************************************)
NoneV == [k |-> "None"]
IntV(n) == [k |-> "int", v |-> n]
StrV(s) == [k |-> "str", v |-> s]      \* s: the string as a sequence of characters
ListV(xs) == [k |-> "list", v |-> xs]
Raise(e) == [k |-> "raise", v |-> e]   \* an exception propagating out of a call

Digits == <<"0", "1", "2", "3", "4", "5", "6", "7", "8", "9">>
IsDigit(c) == \E i \in 1..10 : Digits[i] = c
DigitVal(c) == (CHOOSE i \in 1..10 : Digits[i] = c) - 1

RECURSIVE ParseNat(_)
ParseNat(s) ==
    IF s = <<>> THEN 0
    ELSE 10 * ParseNat(SubSeq(s, 1, Len(s) - 1)) + DigitVal(s[Len(s)])

\* pd.to_numeric(value, errors='coerce') on one cell: a number stays, a string of
\* digits is parsed, anything else (other strings, None) becomes NaN.
NaN == [k |-> "nan"]
to_numeric(x) ==
    CASE x.k = "int" -> x
      [] x.k = "str" -> IF Len(x.v) > 0 /\ \A i \in 1..Len(x.v) : IsDigit(x.v[i])
                        THEN IntV(ParseNat(x.v))
                        ELSE NaN
      [] OTHER -> NaN

\* x.split('T')[0] on a date string given as a sequence of characters.
RECURSIVE SplitT0(_)
SplitT0(s) ==
    IF s = <<>> \/ Head(s) = "T" THEN <<>>
    ELSE <<Head(s)>> \o SplitT0(Tail(s))

\* pd.to_datetime on a date string: the calendar date it denotes.  A date is
\* written as <<year, "-", month, "-", day>>; only such strings reach it here.
to_datetime(s) == [k |-> "date", y |-> s[1], m |-> s[3], d |-> s[5]]

\* lambda x: x[0]['value'] if isinstance(x, list) and len(x) > 0 else x
FirstValue(x) ==
    IF x.k = "list" /\ Len(x.v) > 0
    THEN (IF "value" \in DOMAIN x.v[1] THEN x.v[1].value ELSE Raise("KeyError"))
    ELSE x

\* Lines 42-47 on rows that are dicts: the DataFrame has a column for a key only
\* if some row has it; a row without the key holds NaN there.
\* Line 46 left out: the rows whose value is NaN stay in the frame.
DropNa_KeepsAll(rows) == rows

RECURSIVE DropNa(_)
DropNa(rows) ==
    IF rows = <<>> THEN <<>>
    ELSE (IF Head(rows).value.k = "nan" THEN <<>> ELSE <<Head(rows)>>) \o DropNa(Tail(rows))

ParseTimeline(timeline_data) ==
    LET n == Len(timeline_data)
        HasKey(key) == \E i \in 1..n : key \in DOMAIN timeline_data[i]
    IN  IF ~HasKey("date") THEN Raise("KeyError")
        ELSE IF \E i \in 1..n : "date" \notin DOMAIN timeline_data[i]
             THEN Raise("AttributeError")      \* NaN.split
        ELSE IF ~HasKey("values") THEN Raise("KeyError")
        ELSE
        LET cell(i) == IF "values" \in DOMAIN timeline_data[i]
                       THEN FirstValue(timeline_data[i].values)
                       ELSE NaN
        IN  IF \E i \in 1..n : cell(i).k = "raise" THEN Raise("KeyError")
            ELSE [k |-> "frame",
                  v |-> DropNa([i \in 1..n |->
                                  [date |-> to_datetime(SplitT0(timeline_data[i].date)),
                                   value |-> to_numeric(cell(i))]])]

(***************************************************************************)
(* HTTP: what the remote service and the transport do with one request.    *)
(***************************************************************************)
Exc(e) == [k |-> "exc", v |-> e]                        \* requests raises e (a RequestException)
Resp(status, body) == [k |-> "resp", status |-> status, body |-> body]

\* response.raise_for_status(): HTTPError for a 4xx or 5xx status.
\* The value is the RequestException the try block catches, "" if none; whatever
\* its kind, the except clause writes an st.error and returns None.
RequestException(o) ==
    IF o.k = "exc" THEN o.v
    ELSE IF o.status = 401 THEN "AuthError"
    ELSE IF o.status = 429 THEN "RateLimited"
    ELSE IF o.status >= 400 THEN "ServerError"
    ELSE ""

Dict(items) == [k |-> "dict", v |-> items]
Has(x, key) == x.k = "dict" /\ key \in DOMAIN x.v
Truthy(x) == x.k # "None"

\* google_trends_search up to its second request (lines 32-52).
\* done: the call is over with res; otherwise res is the result dict so far.
TrendsTimeseries(o) ==
    IF RequestException(o) # "" THEN [done |-> TRUE, res |-> NoneV]
    ELSE LET data == o.body
             timeline_data == IF Has(data, "interest_over_time")
                                 /\ "timeline_data" \in DOMAIN data.v.interest_over_time
                              THEN data.v.interest_over_time.timeline_data
                              ELSE <<>>
         IN  IF ~Has(data, "interest_over_time") \/ timeline_data = <<>>
             THEN [done |-> FALSE, res |-> [has_trend_data |-> FALSE, trend_data |-> <<>>]]
             ELSE LET df == ParseTimeline(timeline_data)
                  IN  IF df.k = "raise"
                      THEN [done |-> TRUE, res |-> df]
                      ELSE [done |-> FALSE, res |-> [has_trend_data |-> TRUE, trend_data |-> df.v]]

\* google_trends_search from its second request on (lines 53-62).
TrendsRelated(result, o) ==
    IF RequestException(o) # "" THEN NoneV
    ELSE Dict([trend_data |-> result.trend_data,
               has_trend_data |-> result.has_trend_data,
               has_related_queries |-> Has(o.body, "related_queries")])

\* serper_search, exa_search and exa_get_contents share one shape (lines 73-79,
\* 99-105, 123-129): one request, the JSON body or None.
OneRequest(o) ==
    IF RequestException(o) # "" THEN NoneV
    ELSE o.body

serper_search(o) == OneRequest(o)
exa_search(o) == OneRequest(o)
exa_get_contents(o) == OneRequest(o)

\* google_trends_search as one call, given what its two requests meet.
google_trends_search(o1, o2) ==
    LET first == TrendsTimeseries(o1)
    IN  IF first.done THEN first.res ELSE TrendsRelated(first.res, o2)

(***************************************************************************)
(* main(): constants, the loop over the selected search types, the block   *)
(* behind "Process Selected Results"                                       *)
(***************************************************************************)
TTL == 3600
search_types == <<"Google Trends", "Serper Search", "Serper Scholar", "Exa Company",
                  "Exa Research Paper", "Exa News", "Exa Tweet">>
timeframes == ("Past 7 days" :> "now 7-d") @@ ("Past 30 days" :> "today 1-m")
              @@ ("Past 90 days" :> "today 3-m") @@ ("Past 12 months" :> "today 12-m")
              @@ ("Past 5 years" :> "today 5-y")

\* search_type.startswith("Exa"), and search_type.split(" ")[-1].lower()
StartsWithExa(t) == t \in {"Exa Company", "Exa Research Paper", "Exa News", "Exa Tweet"}
Category(t) ==
    CASE t = "Exa Company" -> "company"
      [] t = "Exa Research Paper" -> "paper"
      [] t = "Exa News" -> "news"
      [] t = "Exa Tweet" -> "tweet"

\* The checkbox keys f"serper_search_{i}", f"serper_scholar_{i}", f"exa_{category}_{i}"
CheckboxKey(t, i) ==
    CASE t = "Serper Search" -> <<"serper", "search", i>>
      [] t = "Serper Scholar" -> <<"serper", "scholar", i>>
      [] OTHER -> <<"exa", Category(t), i>>

\* Line 183 as it would read if the results were drawn on every script run with a
\* query, whichever widget started the run.
EnterBlock_WithoutButton(search_button, query) == query # ""

\* if search_button and search_query: (line 183)
EnterBlock(search_button, query) == search_button /\ query # ""

\* The function a search type calls, and the arguments st.cache_data hashes.
\* stamp is the reading of datetime.now() in this run (lines 176-179): the date
\* strings carry it down to the microsecond, so they differ from run to run.
DateStr(stamp, days) == [s |-> stamp.s - days * 86400, n |-> stamp.n]
CallOf(t, query, timeframe, stamp) ==
    CASE t = "Google Trends" -> [fn |-> "google_trends_search", args |-> <<query, timeframes[timeframe]>>]
      [] t = "Serper Search" -> [fn |-> "serper_search", args |-> <<query, "search">>]
      [] t = "Serper Scholar" -> [fn |-> "serper_search", args |-> <<query, "scholar">>]
      [] OTHER -> [fn |-> "exa_search",
                   args |-> <<query, Category(t), DateStr(stamp, 30), DateStr(stamp, 0)>>]

\* Two argument tuples of one adapter that stand for the same search: the same
\* query and the same search type, category or timeframe (args[1], args[2]).
SameSearch(a, b) == a[1] = b[1] /\ a[2] = b[2]

Unbound == [k |-> "unbound"]
NoLocals == [search_results |-> Unbound, scholar_results |-> Unbound, exa_results |-> Unbound]

\* One for-loop over a result list (lines 207-214, 223-231, 242-251): the checkbox
\* of row i is drawn first, then the fields are read; a dict subscript on a key
\* the row lacks raises KeyError and ends the script run there.
RenderList(t, items, required, urlkey) ==
    LET bad == {i \in 1..Len(items) : ~(required \subseteq DOMAIN items[i])}
        last == IF bad = {} THEN Len(items) ELSE CHOOSE i \in bad : \A j \in bad : i <= j
        box(i) == [key |-> CheckboxKey(t, i - 1),
                   url |-> IF i \in bad THEN "(not drawn)"
                           ELSE IF urlkey \in DOMAIN items[i] THEN items[i][urlkey]
                           ELSE "No URL"]
    IN  [boxes |-> [i \in 1..last |-> box(i)], raised |-> bad # {}]

\* The body of the for loop of line 184 for search type t, once the adapter has
\* handed back r.  A RequestException caught in the adapter reaches here as None.
LoopBody(t, r, locals) ==
    LET v == r
        entry(what, boxes) == [type |-> t, what |-> what, boxes |-> boxes]
    IN  CASE t = "Google Trends" ->
               [locals |-> locals, raised |-> FALSE,
                entry |-> entry(IF Truthy(v) /\ v.v.has_trend_data THEN "chart" ELSE "nothing", <<>>)]
          [] t = "Serper Search" ->
               LET l == IF Truthy(v) /\ Has(v, "organic")
                        THEN RenderList(t, v.v.organic, {"title", "snippet", "link"}, "link")
                        ELSE [boxes |-> <<>>, raised |-> FALSE]
               IN  [locals |-> [locals EXCEPT !.search_results = v], raised |-> l.raised,
                    entry |-> entry(IF Truthy(v) /\ Has(v, "organic") THEN "results" ELSE "warning", l.boxes)]
          [] t = "Serper Scholar" ->
               LET l == IF Truthy(v) /\ Has(v, "organic_results")
                        THEN RenderList(t, v.v.organic_results, {"title", "link"}, "link")
                        ELSE [boxes |-> <<>>, raised |-> FALSE]
               IN  [locals |-> [locals EXCEPT !.scholar_results = v], raised |-> l.raised,
                    entry |-> entry(IF Truthy(v) /\ Has(v, "organic_results") THEN "results" ELSE "warning", l.boxes)]
          [] OTHER ->
               LET l == IF Truthy(v) /\ Has(v, "results")
                        THEN RenderList(t, v.v.results, {}, "url")
                        ELSE [boxes |-> <<>>, raised |-> FALSE]
               IN  [locals |-> [locals EXCEPT !.exa_results = v], raised |-> l.raised,
                    entry |-> entry(IF Truthy(v) /\ Has(v, "results") THEN "results" ELSE "warning", l.boxes)]

\* [result[urlkey] for i, result in enumerate(results[listkey])
\*    if st.session_state.get(f"{prefix}_{i}", False)]            (lines 262-270)
\* results[listkey] raises TypeError on None and KeyError on a dict without the key.
SelectedFrom(t, results, listkey, urlkey, state) ==
    IF ~Has(results, listkey) THEN Raise(IF results.k = "dict" THEN "KeyError" ELSE "TypeError")
    ELSE LET items == results.v[listkey]
             picked == {i \in 1..Len(items) : CheckboxKey(t, i - 1) \in state}
         IN  IF \E i \in picked : urlkey \notin DOMAIN items[i] THEN Raise("KeyError")
             ELSE LET RECURSIVE take(_)
                      take(i) == IF i > Len(items) THEN <<>>
                                 ELSE (IF i \in picked THEN <<items[i][urlkey]>> ELSE <<>>) \o take(i + 1)
                  IN  ListV(take(1))

\* Lines 258-270: selected_urls, or the exception that ends the script run.
RECURSIVE ProcessSelected(_, _, _)
ProcessSelected(types, locals, state) ==
    IF types = <<>> THEN ListV(<<>>)
    ELSE LET t == Head(types)
             mine == CASE t = "Serper Search" ->
                            SelectedFrom(t, locals.search_results, "organic", "link", state)
                       [] t = "Serper Scholar" ->
                            SelectedFrom(t, locals.scholar_results, "organic_results", "link", state)
                       [] StartsWithExa(t) ->
                            SelectedFrom(t, locals.exa_results, "results", "url", state)
                       [] OTHER -> ListV(<<>>)
             rest == ProcessSelected(Tail(types), locals, state)
         IN  IF mine.k = "raise" THEN mine
             ELSE IF rest.k = "raise" THEN rest
             ELSE ListV(mine.v \o rest.v)

\* Lines 278-289: for url, content in detailed_contents.items(): content.get(...)
\* raises AttributeError on a value that is no dict.
RenderContents(r) ==
    [entry |-> [type |-> "Process Selected Results",
                what |-> IF Truthy(r) THEN "contents" ELSE "warning",
                boxes |-> <<>>],
     raised |-> Truthy(r) /\ \E key \in DOMAIN r.v : r.v[key].k # "dict"]

\* The checkbox keys a script run has drawn.  Streamlit keeps the state of a
\* widget only while the script draws it: at the end of a run the session state
\* of every key the run did not draw is dropped.
KeysOf(disp) == UNION {{disp[i].boxes[j].key : j \in 1..Len(disp[i].boxes)} : i \in 1..Len(disp)}
Cleanup(state, disp) == state \cap KeysOf(disp)

\* st.cache_data(ttl=3600): an entry is served while it is younger than the TTL;
\* a call that returns (None included) is stored, one that raises is not.
Lookup(store, fn, args, time) == {e \in store[fn] : e.args = args /\ time < e.at + TTL}
Store(store, fn, args, val, time) ==
    [store EXCEPT ![fn] = {e \in @ : e.args # args} \cup {[args |-> args, val |-> val, at |-> time]}]
EmptyCache == [google_trends_search |-> {}, serper_search |-> {}, exa_search |-> {},
               exa_get_contents |-> {}]

(***************************************************************************)
(* Bounds and input sets                                                   *)
(***************************************************************************)
MaxRows == 3          \* rows of a timeline

HttpFailures == {Exc("Timeout"), Exc("Transport"), Resp(401, NoneV), Resp(429, NoneV),
                 Resp(500, NoneV)}

DateStrings == {<<"2024", "-", "01", "-", "07">>,
                <<"2024", "-", "01", "-", "14", "T", "00:00:00">>}
Scalars == {IntV(5), StrV(<<"4", "2">>), StrV(<<"<", "1">>), NoneV}
ValueEntries == Scalars \cup {ListV(<<[value |-> IntV(7)]>>), ListV(<<[value |-> StrV(<<"<", "1">>)]>>)}
Rows == [date : DateStrings, values : ValueEntries]
Timelines == UNION {[1..n -> Rows] : n \in 0..MaxRows}

TimeseriesBody(rows) == Dict([interest_over_time |-> [timeline_data |-> rows]])
RelatedBodies == {Dict([related_queries |-> "top, rising"]), Dict([search_metadata |-> "ok"])}

Idle == [k |-> "idle"]

HistInit == [process_pressed |-> FALSE,  \* the run was started by "Process Selected Results"
             passQuery |-> "",           \* the query of the latest search pass
             markQuery |-> "",           \* the query under whose results a box was last ticked
             markedSincePass |-> FALSE,  \* a box was ticked since the latest pass for a new query began
             crashed |-> FALSE,          \* the run ended with an uncaught exception
             fetches |-> 0,              \* calls of exa_get_contents in the run
             served |-> "",              \* the latest adapter call: "body", "cached", "cached None"
             reexec |-> FALSE]           \* an adapter body ran although it had returned a result
                                         \* for the same search less than TTL ago

\* The part of the state a specification of one function alone leaves untouched.
SessionVars == <<logged_in, search_query, selected_search_types, selected_timeframe,
                 checked, reads, pc, run, pending, display, hist>>
SessionInit ==
    /\ logged_in = FALSE
    /\ search_query = ""
    /\ selected_search_types = <<"Google Trends">>
    /\ selected_timeframe = "Past 7 days"
    /\ checked = {}
    /\ reads = 0
    /\ pc = "idle"
    /\ run = Idle
    /\ pending = Idle
    /\ display = <<>>
    /\ hist = HistInit

(***************************************************************************)
(* The session: one script run of main() per user interaction              *)
(***************************************************************************)
MaxTime == 3600           \* the clock stops here
MaxRuns == 6              \* script runs of one session after the login

Queries == {"q1", "q2"}
Selections == {<<"Google Trends">>, <<"Google Trends", "Serper Search">>,
               <<"Serper Search", "Exa News">>}
Timeframes == {"Past 7 days", "Past 30 days"}
TickSteps == {3600}

Item(u) == [title |-> "t", snippet |-> "s", link |-> u]
ExaItem(u) == [title |-> "t", text |-> "x", url |-> u]
GoodRow == [date |-> <<"2024", "-", "01", "-", "07">>, values |-> ListV(<<[value |-> IntV(7)]>>)]

\* The JSON bodies a remote service answers with.
Bodies(fn, args, stage) ==
    CASE fn = "google_trends_search" /\ stage = 1 ->
             {TimeseriesBody(<<GoodRow>>), TimeseriesBody(<<[values |-> IntV(5)]>>)}
      [] fn = "google_trends_search" /\ stage = 2 -> RelatedBodies
      [] fn = "serper_search" /\ args[2] = "search" ->
             {Dict([organic |-> <<Item("a"), Item("b")>>]), Dict([message |-> "none"])}
      [] fn = "serper_search" /\ args[2] = "scholar" ->
             {Dict([organic |-> <<Item("c")>>]), Dict([organic_results |-> <<Item("c")>>])}
      [] fn = "exa_search" -> {Dict([results |-> <<ExaItem("d")>>])}
      [] fn = "exa_get_contents" -> {Dict([results |-> ListV(<<>>)])}
Outcomes(fn, args, stage) == HttpFailures \cup {Resp(200, b) : b \in Bodies(fn, args, stage)}

Init ==
    /\ SessionInit
    /\ now = 0 /\ cache = EmptyCache
    /\ tin = Idle /\ tout = Idle /\ bin = Idle /\ bout = Idle
    /\ plan = Idle /\ sent = Idle /\ fres = Idle

Harness == <<tin, tout, bin, bout, plan, sent, fres>>

\* The script run ends (its last line, or an uncaught exception).
Finish(disp, crashed, h) ==
    /\ pc' = "idle"
    /\ run' = Idle
    /\ display' = disp
    /\ checked' = Cleanup(checked, disp)
    /\ hist' = [h EXCEPT !.crashed = crashed]

\* A user interaction starts a script run: lines 147-183.  sb and pb are what
\* st.button returns for "Search" and "Process Selected Results" in this run,
\* state the checkbox state the browser sends along.
Begin(sb, pb, query, state, h) ==
    /\ pc = "idle" /\ logged_in
    /\ reads <= MaxRuns
    /\ reads' = reads + 1
    /\ IF EnterBlock(sb, query)
       THEN /\ pc' = "loop"
            /\ run' = [process_clicked |-> pb, idx |-> 1, locals |-> NoLocals,
                       stamp |-> [s |-> now, n |-> reads + 1]]
            /\ display' = <<>>
            /\ checked' = state
            /\ hist' = [h EXCEPT !.crashed = FALSE, !.fetches = 0, !.served = "",
                                 !.passQuery = query,
                                 !.markedSincePass = IF query = h.passQuery THEN @ ELSE FALSE]
       ELSE /\ pc' = "idle"
            /\ run' = Idle
            /\ display' = <<>>
            /\ checked' = Cleanup(state, <<>>)
            /\ hist' = [h EXCEPT !.crashed = FALSE, !.fetches = 0, !.served = ""]
    /\ UNCHANGED <<now, cache, pending, Harness>>

\* login(): the credentials match, st.rerun() runs the script again, logged in
\* (the Search button returns False in that run).
Login ==
    /\ ~logged_in /\ pc = "idle"
    /\ logged_in' = TRUE
    /\ reads' = reads + 1
    /\ UNCHANGED <<search_query, selected_search_types, selected_timeframe, checked,
                   now, cache, pc, run, pending, display, hist, Harness>>

SetQuery ==
    \E q \in Queries \ {search_query} :
        /\ search_query' = q
        /\ Begin(FALSE, FALSE, q, checked, [hist EXCEPT !.process_pressed = FALSE])
        /\ UNCHANGED <<logged_in, selected_search_types, selected_timeframe>>

SetTypes ==
    \E sel \in Selections \ {selected_search_types} :
        /\ selected_search_types' = sel
        /\ Begin(FALSE, FALSE, search_query, checked, [hist EXCEPT !.process_pressed = FALSE])
        /\ UNCHANGED <<logged_in, search_query, selected_timeframe>>

SetTimeframe ==
    \E tf \in Timeframes \ {selected_timeframe} :
        /\ selected_timeframe' = tf
        /\ Begin(FALSE, FALSE, search_query, checked, [hist EXCEPT !.process_pressed = FALSE])
        /\ UNCHANGED <<logged_in, search_query, selected_search_types>>

ClickSearch ==
    /\ Begin(TRUE, FALSE, search_query, checked, [hist EXCEPT !.process_pressed = FALSE])
    /\ UNCHANGED <<logged_in, search_query, selected_search_types, selected_timeframe>>

\* The user ticks or unticks a checkbox the page shows.
Toggle ==
    \E key \in KeysOf(display) :
        /\ Begin(FALSE, FALSE, search_query,
                 IF key \in checked THEN checked \ {key} ELSE checked \cup {key},
                 [hist EXCEPT !.process_pressed = FALSE,
                              !.markQuery = IF key \in checked THEN @ ELSE hist.passQuery,
                              !.markedSincePass = IF key \in checked THEN @ ELSE TRUE])
        /\ UNCHANGED <<logged_in, search_query, selected_search_types, selected_timeframe>>

\* The user presses "Process Selected Results", which the page shows once a
\* script run has reached line 257.
ClickProcess ==
    /\ \E i \in 1..Len(display) : display[i].what = "button"
    /\ Begin(FALSE, TRUE, search_query, checked, [hist EXCEPT !.process_pressed = TRUE])
    /\ UNCHANGED <<logged_in, search_query, selected_search_types, selected_timeframe>>

\* Lines 186-254 for one search type, from the adapter's return on.
AfterCall(t, r, h) ==
    LET b == LoopBody(t, r, run.locals)
        disp == Append(display, b.entry)
    IN  IF b.raised THEN Finish(disp, TRUE, h)
        ELSE /\ pc' = "loop"
             /\ run' = [run EXCEPT !.idx = @ + 1, !.locals = b.locals]
             /\ display' = disp
             /\ checked' = checked
             /\ hist' = h

\* One iteration of the loop of line 184 up to the adapter call: served from the
\* cache, or the adapter body runs and blocks on its HTTP request.
LoopStep ==
    /\ pc = "loop" /\ run.idx <= Len(selected_search_types)
    /\ LET t == selected_search_types[run.idx]
           c == CallOf(t, search_query, selected_timeframe, run.stamp)
           hit == Lookup(cache, c.fn, c.args, now)
       IN  IF hit # {}
           THEN LET e == CHOOSE e \in hit : TRUE
                IN  /\ AfterCall(t, e.val, [hist EXCEPT !.served =
                                     IF Truthy(e.val) THEN "cached" ELSE "cached None"])
                    /\ UNCHANGED pending
           ELSE /\ pc' = "http"
                /\ pending' = [type |-> t, fn |-> c.fn, args |-> c.args, stage |-> 1,
                               partial |-> Idle]
                /\ hist' = [hist EXCEPT !.served = "body",
                                         !.reexec = @ \/ \E e \in cache[c.fn] :
                                            /\ SameSearch(e.args, c.args)
                                            /\ Truthy(e.val) /\ now - e.at < TTL]
                /\ UNCHANGED <<run, display, checked>>
    /\ UNCHANGED <<logged_in, search_query, selected_search_types, selected_timeframe,
                   now, reads, cache, Harness>>

\* Line 257 on: the button is drawn; if it returns True the block behind it runs.
EndLoop ==
    /\ pc = "loop" /\ run.idx > Len(selected_search_types)
    /\ LET disp == Append(display, [type |-> "Process Selected Results", what |-> "button",
                                    boxes |-> <<>>])
           urls == ProcessSelected(selected_search_types, run.locals, checked)
           hit == Lookup(cache, "exa_get_contents", <<urls.v>>, now)
       IN  IF ~run.process_clicked
           THEN Finish(disp, FALSE, hist) /\ UNCHANGED pending
           ELSE IF urls.k = "raise"
           THEN Finish(disp, TRUE, hist) /\ UNCHANGED pending
           ELSE IF hit # {}
           THEN LET r == (CHOOSE e \in hit : TRUE).val
                IN  /\ Finish(Append(disp, RenderContents(r).entry), RenderContents(r).raised,
                              [hist EXCEPT !.fetches = 1])
                    /\ UNCHANGED pending
           ELSE /\ pc' = "http"
                /\ pending' = [type |-> "Process Selected Results", fn |-> "exa_get_contents",
                               args |-> <<urls.v>>, stage |-> 1, partial |-> Idle]
                /\ display' = disp
                /\ hist' = [hist EXCEPT !.fetches = 1]
                /\ UNCHANGED <<run, checked>>
    /\ UNCHANGED <<logged_in, search_query, selected_search_types, selected_timeframe,
                   now, reads, cache, Harness>>

\* The adapter's call returns r (or raises): st.cache_data stores what returned.
Completed(r) ==
    /\ pending' = Idle
    /\ IF r.k = "raise"
       THEN Finish(display, TRUE, hist) /\ UNCHANGED cache
       ELSE /\ cache' = Store(cache, pending.fn, pending.args, r, now)
            /\ IF pending.fn = "exa_get_contents"
               THEN Finish(Append(display, RenderContents(r).entry), RenderContents(r).raised, hist)
               ELSE AfterCall(pending.type, r, hist)

\* The remote service answers the request the script is blocked on (or the
\* transport fails).  Nothing in the code bounds how long this takes: requests.get
\* and requests.post are called without timeout=.
Respond ==
    /\ pc = "http"
    /\ \E o \in Outcomes(pending.fn, pending.args, pending.stage) :
          IF pending.fn = "google_trends_search" /\ pending.stage = 1
          THEN LET first == TrendsTimeseries(o)
               IN  IF first.done THEN Completed(first.res)
                   ELSE /\ pending' = [pending EXCEPT !.stage = 2, !.partial = first.res]
                        /\ UNCHANGED <<cache, pc, run, display, checked, hist>>
          ELSE IF pending.fn = "google_trends_search"
          THEN Completed(TrendsRelated(pending.partial, o))
          ELSE IF pending.fn = "serper_search" THEN Completed(serper_search(o))
          ELSE IF pending.fn = "exa_search" THEN Completed(exa_search(o))
          ELSE Completed(exa_get_contents(o))
    /\ UNCHANGED <<logged_in, search_query, selected_search_types, selected_timeframe,
                   now, reads, Harness>>

\* Time passes, between interactions or while the script is blocked on a request.
Tick ==
    /\ pc \in {"idle", "http"}
    /\ \E d \in TickSteps : now + d <= MaxTime /\ now' = now + d
    /\ UNCHANGED <<logged_in, search_query, selected_search_types, selected_timeframe,
                   checked, reads, cache, pc, run, pending, display, hist, Harness>>

Next ==
    \/ Login \/ SetQuery \/ SetTypes \/ SetTimeframe \/ ClickSearch \/ Toggle \/ ClickProcess
    \/ LoopStep \/ EndLoop \/ Respond \/ Tick

Spec == Init /\ [][Next]_vars

\* The script's own steps are taken once they can be; nothing makes a remote
\* service answer.
FairSpec == Spec /\ WF_vars(LoopStep) /\ WF_vars(EndLoop)

\* C1: a search pass over several search types is never cut short: when its
\* script run ends, no exception has ended it and every requested search type
\* has been handled (its results, its chart or its warning drawn), whatever the
\* adapter of another one met.
C1_PassSurvivesProviderFailure ==
    (pc = "idle" /\ hist.served # "" /\ Len(selected_search_types) > 1)
        => /\ ~hist.crashed
           /\ \A i \in 1..Len(selected_search_types) :
                 \E j \in 1..Len(display) : display[j].type = selected_search_types[i]

\* C2: no adapter body runs (and sends its HTTP request) for a search whose
\* provider, query and timeframe it has answered less than TTL seconds before.
C2_OneCallPerTTLWindow == ~hist.reexec

\* C3: a call is never served a failure (None) out of the cache.
C3_FailureNotCached == hist.served # "cached None"

\* C6: unless a box has been ticked since the latest pass for a new query began,
\* no checkbox is selected: what was ticked under an earlier query is gone.
C6_SelectionReset == ~hist.markedSincePass => checked = {}

\* C6 witness: boxes were ticked under q1, then q2 was searched and its results
\* are on the page with nothing selected.
C6_Witness ==
    /\ pc = "idle" /\ hist.markQuery = "q1" /\ hist.passQuery = "q2"
    /\ ~hist.markedSincePass /\ KeysOf(display) # {} /\ checked = {}

\* C7: every script run ends: a run blocked on an HTTP request is released after
\* a timeout even if the remote service never answers.
C7_RunCompletes == (pc # "idle") ~> (pc = "idle")

\* C9: the script run started by pressing "Process Selected Results", after a
\* search has drawn results and a box has been ticked, calls exa_get_contents.
C9_ProcessReachesFetch ==
    (pc = "idle" /\ hist.process_pressed /\ hist.markQuery # "") => hist.fetches = 1

(***************************************************************************)
(* main's search block alone (lines 183-276): one evaluation with the      *)
(* adapters' return values and the widgets' return values as inputs        *)
(***************************************************************************)
MaxTypes == 2         \* search types selected at once

BlockTypes == {"Google Trends", "Serper Search", "Serper Scholar", "Exa Company", "Exa News"}
BlockSelections ==
    {sel \in UNION {[1..n -> BlockTypes] : n \in 0..MaxTypes} :
        \A i, j \in 1..Len(sel) : i # j => sel[i] # sel[j]}

\* What the adapter of a search type can hand back.
Returns(t) ==
    CASE t = "Google Trends" ->
             {google_trends_search(o1, o2) :
                 o1 \in Outcomes("google_trends_search", <<>>, 1),
                 o2 \in Outcomes("google_trends_search", <<>>, 2)}
      [] t = "Serper Search" ->
             {serper_search(o) : o \in Outcomes("serper_search", <<"", "search">>, 1)
                                       \cup {Resp(200, Dict([organic |-> <<[link |-> "a"]>>]))}}
      [] t = "Serper Scholar" ->
             {serper_search(o) : o \in Outcomes("serper_search", <<"", "scholar">>, 1)}
      [] t = "Exa Company" ->
             {exa_search(o) : o \in Outcomes("exa_search", <<>>, 1)}
      [] OTHER ->
             {exa_search(o) : o \in {Exc("Timeout"),
                                      Resp(200, Dict([results |-> <<ExaItem("e"), ExaItem("f")>>]))}}

\* The for loop of line 184 over types, the i-th adapter handing back rets[i].
RECURSIVE RunLoop(_, _, _, _)
RunLoop(types, rets, locals, disp) ==
    IF types = <<>> THEN [locals |-> locals, display |-> disp, raised |-> FALSE]
    ELSE IF Head(rets).k = "raise" THEN [locals |-> locals, display |-> disp, raised |-> TRUE]
    ELSE LET b == LoopBody(Head(types), Head(rets), locals)
         IN  IF b.raised
             THEN [locals |-> b.locals, display |-> Append(disp, b.entry), raised |-> TRUE]
             ELSE RunLoop(Tail(types), Tail(rets), b.locals, Append(disp, b.entry))

BlockInit ==
    /\ SessionInit
    /\ now = 0 /\ cache = EmptyCache
    /\ \E sel \in BlockSelections :
          bin \in {[types |-> sel, rets |-> r] :
                      r \in {f \in [1..Len(sel) -> UNION {Returns(t) : t \in BlockTypes}] :
                                \A i \in 1..Len(sel) : f[i] \in Returns(sel[i])}}
    /\ bout = Idle
    /\ tin = Idle /\ tout = Idle /\ plan = Idle /\ sent = Idle /\ fres = Idle

\* The block with both buttons returning True and the checkboxes returning state.
RunBlock ==
    /\ bout = Idle
    /\ LET l == RunLoop(bin.types, bin.rets, NoLocals, <<>>)
       IN  \E state \in SUBSET KeysOf(l.display) :
              bout' = [display |-> l.display, state |-> state, raised |-> l.raised,
                       urls |-> IF l.raised THEN Idle
                                ELSE ProcessSelected(bin.types, l.locals, state)]
    /\ UNCHANGED <<SessionVars, now, cache, tin, tout, bin, plan, sent, fres>>

BlockNext == RunBlock
BlockSpec == BlockInit /\ [][BlockNext]_vars

\* The URLs drawn beside the ticked checkboxes, in the order of the page.
RECURSIVE MarkedUrls(_, _)
MarkedUrls(disp, state) ==
    IF disp = <<>> THEN <<>>
    ELSE LET boxes == Head(disp).boxes
             RECURSIVE of(_)
             of(j) == IF j > Len(boxes) THEN <<>>
                      ELSE (IF boxes[j].key \in state THEN <<boxes[j].url>> ELSE <<>>) \o of(j + 1)
         IN  of(1) \o MarkedUrls(Tail(disp), state)

MaxLists == 21        \* distinct URL lists
RequestSeconds == 1   \* what one request takes

FetchOutcomes == {Exc("Timeout"), Resp(500, NoneV), Resp(401, NoneV),
                  Resp(200, Dict([a |-> Dict([text |-> "x"])]))}
Transient(o) == o.k = "exc" \/ o.status >= 500

FetchInit ==
    /\ SessionInit
    /\ now = 0 /\ cache = EmptyCache
    /\ plan \in [1..3 -> FetchOutcomes]     \* what the 1st, 2nd, 3rd attempt of a fetch meets
    /\ sent = <<>>                          \* when each request was sent
    /\ fres = Idle
    /\ tin = Idle /\ tout = Idle /\ bin = Idle /\ bout = Idle

\* detailed_contents = exa_get_contents(selected_urls), with a list used before
\* or the next new one.
Fetch ==
    /\ \E u \in 1..(Cardinality(cache.exa_get_contents) + 1) :
          /\ u <= MaxLists
          /\ LET hit == Lookup(cache, "exa_get_contents", <<<<u>>>>, now)
                 r == exa_get_contents(plan[1])
             IN  IF hit # {}
                 THEN /\ fres' = [urls |-> <<u>>, cached |-> TRUE, attempts |-> 0,
                                  ret |-> (CHOOSE e \in hit : TRUE).val]
                      /\ UNCHANGED <<cache, sent, now>>
                 ELSE /\ fres' = [urls |-> <<u>>, cached |-> FALSE, attempts |-> 1, ret |-> r]
                      /\ sent' = Append(sent, now)
                      /\ now' = now + RequestSeconds
                      /\ cache' = Store(cache, "exa_get_contents", <<<<u>>>>, r, now + RequestSeconds)
    /\ UNCHANGED <<SessionVars, plan, tin, tout, bin, bout>>

FetchNext == Fetch
FetchSpec == FetchInit /\ [][FetchNext]_vars

\* C4: a fetch whose request fails transiently and would succeed on a later one
\* of its first three attempts ends in success, and no fetch makes more than
\* three attempts.
C4_TransientFailureRetried ==
    (fres # Idle /\ ~fres.cached)
        => /\ fres.attempts <= 3
           /\ ((\E i \in 1..3 : /\ RequestException(plan[i]) = ""
                                 /\ \A j \in 1..(i - 1) : Transient(plan[j]))
                  => Truthy(fres.ret))

TrendsInit ==
    /\ SessionInit
    /\ now = 0 /\ cache = EmptyCache
    /\ tin \in [rows : Timelines, related : {Resp(200, b) : b \in RelatedBodies} \cup HttpFailures]
    /\ tout = Idle
    /\ bin = Idle /\ bout = Idle /\ plan = Idle /\ sent = Idle /\ fres = Idle

CallTrends ==
    /\ tout = Idle
    /\ tout' = google_trends_search(Resp(200, TimeseriesBody(tin.rows)), tin.related)
    /\ UNCHANGED <<SessionVars, now, cache, tin, bin, bout, plan, sent, fres>>

TrendsNext == CallTrends
TrendsSpec == TrendsInit /\ [][TrendsNext]_vars

\* What the claim calls a value that converts to a number, and the number.
NumberOf(entry) ==
    CASE entry = IntV(5) -> 5
      [] entry = StrV(<<"4", "2">>) -> 42
      [] entry = ListV(<<[value |-> IntV(7)]>>) -> 7
      [] OTHER -> -1
DateOf(date) == [k |-> "date", y |-> "2024", m |-> "01", d |-> date[5]]
RECURSIVE ConvertibleRows(_)
ConvertibleRows(rows) ==
    IF rows = <<>> THEN <<>>
    ELSE (IF NumberOf(Head(rows).values) >= 0
          THEN <<[date |-> DateOf(Head(rows).date), value |-> IntV(NumberOf(Head(rows).values))]>>
          ELSE <<>>) \o ConvertibleRows(Tail(rows))

\* C8: when both requests of google_trends_search are answered, a timeline of n
\* rows of which k hold a value that does not convert to a number yields a result
\* (not None, no exception) whose trend series is exactly the n-k convertible rows
\* in their original order.
C8_MalformedRowsDropped ==
    (tout # Idle /\ RequestException(tin.related) = "")
        => /\ tout.k = "dict"
           /\ tout.v.trend_data = ConvertibleRows(tin.rows)
           /\ tout.v.has_trend_data = (tin.rows # <<>>)

\* C8 witness: a 3-row timeline with one unconvertible row has been parsed to 2 points.
C8_Witness ==
    /\ tout # Idle /\ tout.k = "dict"
    /\ Len(tin.rows) = 3 /\ Len(tout.v.trend_data) = 2
    /\ \E i \in 1..3 : tin.rows[i].values = StrV(<<"<", "1">>)

====
